---- MODULE Spec2Model ----
(***************************************************************************)
(* A model of backend/server.py: the admin bootstrap, the login and the    *)
(* bearer-token dependency, and the product routes over the document       *)
(* store.  Every await of a store call is one step of the coroutine that   *)
(* issues it; code between two awaits runs in the step that precedes it.   *)
(***************************************************************************)
EXTENDS Integers, Sequences, FiniteSets, TLC

\* ------------------------------------------------------------- bounds
\* Clock ticks per second (the clock is finer than the whole seconds a
\* token's exp is encoded in).
TicksPerSecond == 2
\* Request coroutines, each serving one request.
NReq == 2
\* Startup runs (processes started against the same store).
NStartup == 2
\* Short clock steps taken in a row, and long waits.
MaxShort == 2
MaxLong == 1
\* Salts bcrypt can draw.
NSalt == 2

\* ---------------------------------------------------------- constants
ACCESS_TOKEN_EXPIRE_MINUTES == 1440

None == "None"
Reqs == 1..NReq
Startups == 1..NStartup

\* timedelta(minutes=ACCESS_TOKEN_EXPIRE_MINUTES), in clock ticks
TTLTicks == ACCESS_TOKEN_EXPIRE_MINUTES * 60 * TicksPerSecond
\* A wait that ends one second before a token issued at its start expires.
LongWait == TTLTicks - TicksPerSecond
Times == {a + b * LongWait : a \in 0..MaxShort, b \in 0..MaxLong}

\* ------------------------------------------------------------ values
\* A datetime (in memory) and its isoformat() string (in the store).
Dt(t) == [dt |-> t]
IsDatetime(v) == DOMAIN v = {"dt"}
IsStr(v) == DOMAIN v = {"iso"}
isoformat(d) == [iso |-> d.dt]
fromisoformat(s) == [dt |-> s.iso]
NoValue == [none |-> TRUE]

VARIABLES
  now,        \* datetime.now(timezone.utc), in ticks
  admins,     \* db.admins: a set of documents
  admins0,    \* db.admins when the first process started (history)
  products,   \* db.products: a set of documents
  nextId,     \* uuid.uuid4(): the next fresh identifier
  st,         \* the startup runs
  req,        \* the request coroutines
  issued      \* the tokens create_access_token returned, with the time (history)

vars == <<now, admins, admins0, products, nextId, st, req, issued>>

\* ----------------------------------------------------- password hasher
\* bcrypt: the digest of the plaintext under a salt; the hash string embeds
\* the salt.
Digest(salt, plain) == <<salt, plain>>
hash_password(password, salt) == [salt |-> salt, digest |-> Digest(salt, password)]
verify_password(plain_password, hashed_password) ==
  Digest(hashed_password.salt, plain_password) = hashed_password.digest

\* ------------------------------------------------------- token service
\* HS256 under SECRET_KEY: the MAC of the payload.
Sign(payload) == [sub |-> payload.sub, exp |-> payload.exp]
\* jwt.encode writes a datetime exp as a NumericDate in whole seconds
\* (timegm(utctimetuple())).
IntDate(d) == d.dt \div TicksPerSecond
jwt_encode(payload) ==
  [kind |-> "jwt", sub |-> payload.sub, exp |-> payload.exp, sig |-> Sign(payload)]

create_access_token(data, clock) ==
  LET expire == Dt(clock + TTLTicks)
      to_encode == [sub |-> data.sub, exp |-> IntDate(expire)]
  IN  jwt_encode(to_encode)

\* The credential of a request: no Authorization header, a string that is no
\* JWT, or a JWT (whose signature may not match its payload).
NoCred == [kind |-> "none", sub |-> None, exp |-> 0, sig |-> [sub |-> None, exp |-> 0]]
Garbage == [kind |-> "garbage", sub |-> None, exp |-> 0, sig |-> [sub |-> None, exp |-> 0]]

\* Mutant: exp is compared with < (a token is still good at its exp).
jwt_decode_late(token, clock) ==
  IF token.kind # "jwt" THEN "DecodeError"
  ELSE IF token.sig # Sign(token) THEN "InvalidSignatureError"
  ELSE IF token.exp * TicksPerSecond < clock THEN "ExpiredSignatureError"
  ELSE ""

\* jwt.decode: the error it raises ("" for none); the segments are parsed
\* first, then the signature is verified, then exp is compared with the clock.
jwt_decode(token, clock) ==
  IF token.kind # "jwt" THEN "DecodeError"
  ELSE IF token.sig # Sign(token) THEN "InvalidSignatureError"
  ELSE IF token.exp * TicksPerSecond <= clock THEN "ExpiredSignatureError"
  ELSE ""

NoResp == [status |-> 0, detail |-> "", body |-> {}]
HTTPException(status_code, detail) == [status |-> status_code, detail |-> detail, body |-> {}]
Ok(body) == [status |-> 200, detail |-> "", body |-> body]
\* An exception no handler catches: the framework answers 500.
ServerFault == [status |-> 500, detail |-> "Internal Server Error", body |-> {}]

Authed(username) == [ok |-> TRUE, username |-> username, resp |-> NoResp]
Rejected(resp) == [ok |-> FALSE, username |-> None, resp |-> resp]

\* Mutant: the signature is not verified (options={"verify_signature": False}).
verify_token_unsigned(credentials, clock) ==
  IF credentials.kind # "jwt" THEN Rejected(HTTPException(401, "Invalid token"))
  ELSE IF credentials.exp * TicksPerSecond <= clock
       THEN Rejected(HTTPException(401, "Token expired"))
  ELSE IF credentials.sub = None THEN Rejected(HTTPException(401, "Invalid token"))
  ELSE Authed(credentials.sub)
\* Mutant: only ExpiredSignatureError is caught; the other errors of jwt.decode
\* reach the framework.
verify_token_uncaught(credentials, clock) ==
  LET err == jwt_decode(credentials, clock) IN
  IF err = "ExpiredSignatureError" THEN Rejected(HTTPException(401, "Token expired"))
  ELSE IF err # "" THEN Rejected(ServerFault)
  ELSE IF credentials.sub = None THEN Rejected(HTTPException(401, "Invalid token"))
  ELSE Authed(credentials.sub)

verify_token(credentials, clock) ==
  LET err == jwt_decode(credentials, clock) IN
  IF err = "ExpiredSignatureError" THEN Rejected(HTTPException(401, "Token expired"))
  ELSE IF err # "" THEN Rejected(HTTPException(401, "Invalid token"))
  ELSE IF credentials.sub = None THEN Rejected(HTTPException(401, "Invalid token"))
  ELSE Authed(credentials.sub)

\* security = HTTPBearer(): a request without a bearer credential is answered
\* by the scheme itself and verify_token never runs.  The status is the
\* framework's (403 in the releases that predate the 401 of later ones).
HTTPBearerRejections ==
  {HTTPException(403, "Not authenticated"), HTTPException(401, "Not authenticated")}

\* Depends(verify_token): the outcomes of the dependency for a credential.
Depends_verify_token(cred, clock) ==
  IF cred.kind = "none" THEN {Rejected(r) : r \in HTTPBearerRejections}
  ELSE {verify_token(cred, clock)}

\* Tokens issued before the first state, by logins one TTL before their exp:
\* one that expires as the first state begins, one issued then.
PriorExps == {0, ACCESS_TOKEN_EXPIRE_MINUTES * 60}
PriorTokens == {jwt_encode([sub |-> "admin", exp |-> e]) : e \in PriorExps}
\* A token under the secret that carries no sub.
NoSubToken == jwt_encode([sub |-> None, exp |-> ACCESS_TOKEN_EXPIRE_MINUTES * 60])
\* A token whose exp was moved a day on after it was signed.
Tamper(tok) == [tok EXCEPT !.exp = tok.exp + ACCESS_TOKEN_EXPIRE_MINUTES * 60]
IssuedTokens == {i.token : i \in issued}
Creds ==
  {NoCred, Garbage, NoSubToken} \cup PriorTokens \cup IssuedTokens
    \cup {Tamper(t) : t \in {jwt_encode([sub |-> "admin", exp |-> 0])} \cup IssuedTokens}

\* --------------------------------------------------- record normalizer
TimeFields == {"created_at", "updated_at"}
prepare_for_mongo(data) ==
  [k \in DOMAIN data |->
     IF k \in TimeFields /\ IsDatetime(data[k]) THEN isoformat(data[k]) ELSE data[k]]
parse_from_mongo(item) ==
  [k \in DOMAIN item |->
     IF k \in TimeFields /\ IsStr(item[k]) THEN fromisoformat(item[k]) ELSE item[k]]

\* ------------------------------------------------------------ products
Variant(size, inventory) == [size |-> size, color |-> None, inventory |-> inventory]
\* A product stored by an earlier create.
InitProduct ==
  prepare_for_mongo(
    [id |-> 0, name |-> "Cap", price |-> 999, description |-> "cap",
     images |-> <<"cap.png">>, variants |-> <<Variant("L", 2)>>,
     created_at |-> Dt(0), updated_at |-> Dt(0)])
\* An id no product has.
GhostId == -1

\* ProductCreate bodies.
CreateInputs ==
  {[name |-> "Shirt", price |-> 1999, description |-> "shirt",
    images |-> <<>>, variants |-> <<Variant("M", 5)>>]}
\* ProductUpdate bodies: each field an Optional, {} for None.
AbsentUpdate ==
  [name |-> {}, price |-> {}, description |-> {}, images |-> {}, variants |-> {}]
UpdateInputs ==
  {AbsentUpdate,
   [AbsentUpdate EXCEPT !.price = {2499}],
   [AbsentUpdate EXCEPT !.name = {"Tee"}, !.variants = {<<>>}],
   [AbsentUpdate EXCEPT !.description = {"new"}, !.images = {<<"a.png">>}]}

\* {k: v for k, v in product_data.model_dump().items() if v is not None};
\* update_data["updated_at"] = datetime.now(timezone.utc)
Supplied(product_data) == {k \in DOMAIN product_data : product_data[k] # {}}
\* Mutant: images and variants default to [] as in ProductCreate, so an update
\* that leaves them out clears them.
update_data_of_defaults(product_data, clock) ==
  [k \in Supplied(product_data) \cup {"images", "variants", "updated_at"} |->
     IF k = "updated_at" THEN Dt(clock)
     ELSE IF product_data[k] = {} THEN <<>>
     ELSE CHOOSE v \in product_data[k] : TRUE]
update_data_of(product_data, clock) ==
  [k \in Supplied(product_data) \cup {"updated_at"} |->
     IF k = "updated_at" THEN Dt(clock)
     ELSE CHOOSE v \in product_data[k] : TRUE]

\* find_one({"id": product_id}): the matching documents.
Matching(coll, product_id) == {d \in coll : d.id = product_id}
\* {"$set": update_doc} applied to a document.
SetFields(doc, update_doc) ==
  [k \in DOMAIN doc \cup DOMAIN update_doc |->
     IF k \in DOMAIN update_doc THEN update_doc[k] ELSE doc[k]]

IdleReq ==
  [pc |-> "idle", kind |-> "", cred |-> NoCred, user |-> None, id |-> GhostId,
   data |-> NoValue, loc |-> NoValue, resp |-> NoResp]
\* Requests are numbered in their order of arrival.
Arrives(r) == req[r].pc = "idle" /\ (IF r = 1 THEN TRUE ELSE req[r - 1].pc # "idle")
\* The ids a client can name: those of products a listing or a create has
\* shown it, and one that was never drawn.
KnownIds ==
  {InitProduct.id, GhostId} \cup {d.id : d \in products}
    \cup {req[q].id : q \in {q \in Reqs : req[q].kind = "create" /\ req[q].pc = "done"}}
\* The coroutine returns: its locals are gone.
Finish(r, resp) ==
  req' = [req EXCEPT ![r].pc = "done", ![r].resp = resp, ![r].loc = NoValue]

Tick(d) ==
  /\ now + d \in Times
  /\ now' = now + d
  /\ UNCHANGED <<admins, admins0, products, nextId, st, req, issued>>

\* GET /api/products
get_all_products(r) ==
  /\ Arrives(r)
  /\ req' = [req EXCEPT ![r] = [IdleReq EXCEPT !.pc = "done", !.kind = "list",
               !.resp = Ok({parse_from_mongo(p) : p \in products})]]
  /\ UNCHANGED <<now, admins, admins0, products, nextId, st, issued>>

\* GET /api/products/{product_id}
get_product(r) ==
  /\ Arrives(r)
  /\ \E product_id \in KnownIds :
       LET found == Matching(products, product_id) IN
       IF found = {}
       THEN req' = [req EXCEPT ![r] = [IdleReq EXCEPT !.pc = "done", !.kind = "get",
                      !.id = product_id, !.resp = HTTPException(404, "Product not found")]]
       ELSE \E product \in found :
              req' = [req EXCEPT ![r] = [IdleReq EXCEPT !.pc = "done", !.kind = "get",
                        !.id = product_id, !.resp = Ok({parse_from_mongo(product)})]]
  /\ UNCHANGED <<now, admins, admins0, products, nextId, st, issued>>

\* The arrival of a request of an admin product route: Depends(verify_token)
\* runs before the handler.
AdminArrives(r, kind, cred, auth) ==
  /\ Arrives(r)
  /\ cred \in Creds
  /\ auth \in Depends_verify_token(cred, now)

RejectedReq(kind, cred, auth) ==
  [IdleReq EXCEPT !.pc = "done", !.kind = kind, !.cred = cred, !.resp = auth.resp]

\* POST /api/admin/products: Product(**product_data.model_dump()) draws the id
\* and calls the created_at factory.
create_product(r) ==
  /\ \E cred \in Creds : \E auth \in Depends_verify_token(cred, now) :
       /\ AdminArrives(r, "create", cred, auth)
       /\ IF ~auth.ok
          THEN /\ req' = [req EXCEPT ![r] = RejectedReq("create", cred, auth)]
               /\ UNCHANGED nextId
          ELSE \E product_data \in CreateInputs :
               /\ req' = [req EXCEPT ![r] = [IdleReq EXCEPT !.pc = "c_updated_at",
                            !.kind = "create", !.cred = cred, !.user = auth.username,
                            !.id = nextId, !.data = product_data,
                            !.loc = [created_at |-> Dt(now)]]]
               /\ nextId' = nextId + 1
  /\ UNCHANGED <<now, admins, admins0, products, st, issued>>

\* The updated_at factory of Product, then prepare_for_mongo(product.model_dump()).
Product(id, product_data, created_at, updated_at) ==
  [id |-> id, name |-> product_data.name, price |-> product_data.price,
   description |-> product_data.description, images |-> product_data.images,
   variants |-> product_data.variants,
   created_at |-> created_at, updated_at |-> updated_at]

create_product_updated_at(r) ==
  /\ req[r].pc = "c_updated_at"
  /\ req' = [req EXCEPT ![r].pc = "c_insert",
               ![r].loc = Product(req[r].id, req[r].data, req[r].loc.created_at, Dt(now))]
  /\ UNCHANGED <<now, admins, admins0, products, nextId, st, issued>>

\* await db.products.insert_one(doc); return product
create_product_insert(r) ==
  /\ req[r].pc = "c_insert"
  /\ products' = products \cup {prepare_for_mongo(req[r].loc)}
  /\ Finish(r, Ok({req[r].loc}))
  /\ UNCHANGED <<now, admins, admins0, nextId, st, issued>>

\* PUT /api/admin/products/{product_id}
update_product(r) ==
  /\ \E cred \in Creds : \E auth \in Depends_verify_token(cred, now) :
       /\ AdminArrives(r, "update", cred, auth)
       /\ IF ~auth.ok
          THEN req' = [req EXCEPT ![r] = RejectedReq("update", cred, auth)]
          ELSE \E product_id \in KnownIds : \E product_data \in UpdateInputs :
               req' = [req EXCEPT ![r] = [IdleReq EXCEPT !.pc = "u_find",
                         !.kind = "update", !.cred = cred, !.user = auth.username,
                         !.id = product_id, !.data = product_data]]
  /\ UNCHANGED <<now, admins, admins0, products, nextId, st, issued>>

\* existing_product = await db.products.find_one(...); then update_data and
\* update_doc are built.
update_product_find(r) ==
  /\ req[r].pc = "u_find"
  /\ IF Matching(products, req[r].id) = {}
     THEN Finish(r, HTTPException(404, "Product not found"))
     ELSE req' = [req EXCEPT ![r].pc = "u_set",
                    ![r].loc = prepare_for_mongo(update_data_of(req[r].data, now))]
  /\ UNCHANGED <<now, admins, admins0, products, nextId, st, issued>>

\* await db.products.update_one({"id": product_id}, {"$set": update_doc})
update_one(coll, product_id, update_doc) ==
  IF Matching(coll, product_id) = {} THEN {coll}
  ELSE {(coll \ {d}) \cup {SetFields(d, update_doc)} : d \in Matching(coll, product_id)}

update_product_set(r) ==
  /\ req[r].pc = "u_set"
  /\ products' \in update_one(products, req[r].id, req[r].loc)
  /\ req' = [req EXCEPT ![r].pc = "u_reload"]
  /\ UNCHANGED <<now, admins, admins0, nextId, st, issued>>

\* updated_product = await db.products.find_one(...);
\* return parse_from_mongo(updated_product): item.get on None raises.
update_product_reload(r) ==
  /\ req[r].pc = "u_reload"
  /\ LET found == Matching(products, req[r].id) IN
     IF found = {} THEN Finish(r, ServerFault)
     ELSE \E updated_product \in found : Finish(r, Ok({parse_from_mongo(updated_product)}))
  /\ UNCHANGED <<now, admins, admins0, products, nextId, st, issued>>

\* DELETE /api/admin/products/{product_id}
delete_product(r) ==
  /\ \E cred \in Creds : \E auth \in Depends_verify_token(cred, now) :
       /\ AdminArrives(r, "delete", cred, auth)
       /\ IF ~auth.ok
          THEN req' = [req EXCEPT ![r] = RejectedReq("delete", cred, auth)]
          ELSE \E product_id \in KnownIds :
               req' = [req EXCEPT ![r] = [IdleReq EXCEPT !.pc = "d_delete",
                         !.kind = "delete", !.cred = cred, !.user = auth.username,
                         !.id = product_id]]
  /\ UNCHANGED <<now, admins, admins0, products, nextId, st, issued>>

\* result = await db.products.delete_one({"id": product_id}): the collections
\* it can leave, with deleted_count.
delete_one(coll, product_id) ==
  IF Matching(coll, product_id) = {} THEN {[coll |-> coll, deleted_count |-> 0]}
  ELSE {[coll |-> coll \ {d}, deleted_count |-> 1] : d \in Matching(coll, product_id)}

\* Mutant: deleted_count is not looked at.
delete_product_delete_unchecked(r) ==
  /\ req[r].pc = "d_delete"
  /\ \E result \in delete_one(products, req[r].id) :
       /\ products' = result.coll
       /\ Finish(r, Ok({[message |-> "Product deleted successfully"]}))
  /\ UNCHANGED <<now, admins, admins0, nextId, st, issued>>

delete_product_delete(r) ==
  /\ req[r].pc = "d_delete"
  /\ \E result \in delete_one(products, req[r].id) :
       /\ products' = result.coll
       /\ IF result.deleted_count = 0
          THEN Finish(r, HTTPException(404, "Product not found"))
          ELSE Finish(r, Ok({[message |-> "Product deleted successfully"]}))
  /\ UNCHANGED <<now, admins, admins0, nextId, st, issued>>

\* ------------------------------------------------- credential store
\* An admin a run before the first state created.
ExistingAdmin ==
  [id |-> 1, username |-> "admin", password_hash |-> hash_password("secret", 0)]
IdleStartup ==
  [pc |-> "init", username |-> None, password |-> None, calls |-> 0, admin |-> NoValue]
\* os.environ.get(name, None): unset, empty or set.
EnvUsernames == {None, "", "admin"}
EnvPasswords == {None, "", "secret"}
\* not value
Falsy(value) == value \in {None, ""}
Salts == 1..NSalt

\* Admin(username=..., password_hash=hash_password(...)): the id is drawn.
Admin(id, username, password_hash) ==
  [id |-> id, username |-> username, password_hash |-> password_hash]
\* find_one({"username": username}): the matching documents.
ByUsername(coll, username) == {a \in coll : a.username = username}

\* Mutant: the run is skipped only when both values are missing.
create_default_admin_and(p) ==
  /\ st[p].pc = "init"
  /\ IF p = 1 THEN TRUE ELSE st[p - 1].pc # "init"
  /\ \E new_admin_username \in EnvUsernames : \E new_admin_password \in EnvPasswords :
       st' = [st EXCEPT ![p].username = new_admin_username,
                        ![p].password = new_admin_password,
                        ![p].pc = IF Falsy(new_admin_username) /\ Falsy(new_admin_password)
                                  THEN "done" ELSE "find"]
  /\ UNCHANGED <<now, admins, admins0, products, nextId, req, issued>>

\* create_default_admin, to its return or its first await.  Startup runs are
\* numbered in their order of start.
create_default_admin(p) ==
  /\ st[p].pc = "init"
  /\ IF p = 1 THEN TRUE ELSE st[p - 1].pc # "init"
  /\ \E new_admin_username \in EnvUsernames : \E new_admin_password \in EnvPasswords :
       st' = [st EXCEPT ![p].username = new_admin_username,
                        ![p].password = new_admin_password,
                        ![p].pc = IF Falsy(new_admin_username) \/ Falsy(new_admin_password)
                                  THEN "done" ELSE "find"]
  /\ UNCHANGED <<now, admins, admins0, products, nextId, req, issued>>

\* existing_admin = await db.admins.find_one({"username": new_admin_username});
\* if absent the Admin is built.
create_default_admin_find(p) ==
  /\ st[p].pc = "find"
  /\ IF ByUsername(admins, st[p].username) = {}
     THEN \E salt \in Salts :
            /\ st' = [st EXCEPT ![p].pc = "insert", ![p].calls = @ + 1,
                        ![p].admin = Admin(nextId, st[p].username,
                                           hash_password(st[p].password, salt))]
            /\ nextId' = nextId + 1
     ELSE /\ st' = [st EXCEPT ![p].pc = "done", ![p].calls = @ + 1]
          /\ UNCHANGED nextId
  /\ UNCHANGED <<now, admins, admins0, products, req, issued>>

\* await db.admins.insert_one(admin.model_dump())
create_default_admin_insert(p) ==
  /\ st[p].pc = "insert"
  /\ admins' = admins \cup {st[p].admin}
  /\ st' = [st EXCEPT ![p].pc = "done", ![p].calls = @ + 1]
  /\ UNCHANGED <<now, admins0, products, nextId, req, issued>>

\* AdminLogin bodies.
LoginInputs == [username : {"admin", "ghost"}, password : {"secret", "bad"}]
AdminLoginResponse(access_token, username) ==
  [access_token |-> access_token, token_type |-> "bearer", username |-> username]

\* Mutant: an unknown username is answered apart from a wrong password.
login_outcomes_tells(coll, login_data, clock) ==
  LET found == ByUsername(coll, login_data.username)
  IN  IF found = {} THEN {[resp |-> HTTPException(404, "Admin not found"), tokens |-> {}]}
      ELSE {IF ~verify_password(login_data.password, admin.password_hash)
            THEN [resp |-> HTTPException(401, "Incorrect username or password"),
                  tokens |-> {}]
            ELSE LET access_token == create_access_token([sub |-> admin.username], clock)
                 IN  [resp |-> Ok({AdminLoginResponse(access_token, admin.username)}),
                      tokens |-> {access_token}]
            : admin \in found}

\* POST /api/admin/login: the outcomes for a body, each with the token issued.
login_outcomes(coll, login_data, clock) ==
  LET found == ByUsername(coll, login_data.username)
      refused == [resp |-> HTTPException(401, "Incorrect username or password"),
                  tokens |-> {}]
  IN  IF found = {} THEN {refused}
      ELSE {IF ~verify_password(login_data.password, admin.password_hash)
            THEN refused
            ELSE LET access_token == create_access_token([sub |-> admin.username], clock)
                 IN  [resp |-> Ok({AdminLoginResponse(access_token, admin.username)}),
                      tokens |-> {access_token}]
            : admin \in found}

admin_login(r) ==
  /\ Arrives(r)
  /\ \E login_data \in LoginInputs : \E out \in login_outcomes(admins, login_data, now) :
       /\ req' = [req EXCEPT ![r] = [IdleReq EXCEPT !.pc = "done", !.kind = "login",
                    !.data = login_data, !.resp = out.resp]]
       /\ issued' = issued \cup {[token |-> t, at |-> now] : t \in out.tokens}
  /\ UNCHANGED <<now, admins, admins0, products, nextId, st>>

\* GET /api/admin/verify
verify_admin_token(r) ==
  /\ \E cred \in Creds : \E auth \in Depends_verify_token(cred, now) :
       /\ AdminArrives(r, "verify", cred, auth)
       /\ req' = [req EXCEPT ![r] = [IdleReq EXCEPT !.pc = "done", !.kind = "verify",
                    !.cred = cred, !.user = auth.username, !.data = [at |-> now],
                    !.resp = IF auth.ok
                             THEN Ok({[username |-> auth.username, valid |-> TRUE]})
                             ELSE auth.resp]]
  /\ UNCHANGED <<now, admins, admins0, products, nextId, st, issued>>

\* ------------------------------------------------------ specification
Init ==
  /\ now = 0
  /\ admins0 = {ExistingAdmin}
  /\ admins = admins0
  /\ products = {InitProduct}
  /\ nextId = 2
  /\ st = [p \in Startups |-> IdleStartup]
  /\ req = [r \in Reqs |-> IdleReq]
  /\ issued = {}

\* The product routes, and the clock: the routes read it for timestamps only,
\* and a step of one second puts any two reads in either order.
Next ==
  \/ Tick(TicksPerSecond)
  \/ \E r \in Reqs :
       \/ get_all_products(r)
       \/ get_product(r)
       \/ create_product(r)
       \/ create_product_updated_at(r)
       \/ create_product_insert(r)
       \/ update_product(r)
       \/ update_product_find(r)
       \/ update_product_set(r)
       \/ update_product_reload(r)
       \/ delete_product(r)
       \/ delete_product_delete(r)

Spec == Init /\ [][Next]_vars

\* The startup runs of processes on one store, and logins; the store may hold
\* an admin already.
BootInit ==
  /\ now = 0
  /\ admins0 \in {{}, {ExistingAdmin}}
  /\ admins = admins0
  /\ products = {InitProduct}
  /\ nextId = 2
  /\ st = [p \in Startups |-> IdleStartup]
  /\ req = [r \in Reqs |-> IdleReq]
  /\ issued = {}

BootNext ==
  \/ \E p \in Startups :
       \/ create_default_admin(p)
       \/ create_default_admin_find(p)
       \/ create_default_admin_insert(p)
  \/ \E r \in Reqs : admin_login(r)

BootSpec == BootInit /\ [][BootNext]_vars

\* Logins and token verifications over a day of the clock.
TokenNext ==
  \/ Tick(1)
  \/ Tick(LongWait)
  \/ \E r \in Reqs :
       \/ admin_login(r)
       \/ verify_admin_token(r)

TokenSpec == Init /\ [][TokenNext]_vars

\* ============================================================== claims
Mutating == {"create", "update", "delete"}
Done(r, kind) == req[r].pc = "done" /\ req[r].kind = kind
\* The request was stopped by the credential check.
Refused(r) == req[r].pc = "done" /\ req[r].kind \in Mutating \cup {"verify"} /\ req[r].user = None

\* A credential that is a token under the secret, unexpired at the clock and
\* carrying a subject.
ValidAt(c, clock) ==
  c.kind = "jwt" /\ c.sig = Sign(c) /\ c.exp * TicksPerSecond > clock /\ c.sub # None
\* The unauthenticated answer: 401 for a credential that was presented, the
\* bearer scheme's own refusal for a missing one.
Unauthenticated(c, resp) ==
  /\ resp.body = {}
  /\ IF c.kind = "none" THEN resp \in HTTPBearerRejections ELSE resp.status = 401

\* The steps of a request that C1 speaks of: its arrival, a change of the
\* collection, a public read.
C1_ArrivalStep(r) ==
  (req[r].pc = "idle" /\ req'[r].pc # "idle" /\ req'[r].kind \in Mutating) =>
    /\ products' = products
    /\ IF ValidAt(req'[r].cred, now)
       THEN req'[r].pc # "done" /\ req'[r].user = req'[r].cred.sub
       ELSE /\ req'[r].pc = "done" /\ req'[r].user = None
            /\ Unauthenticated(req'[r].cred, req'[r].resp)
C1_ChangeStep ==
  products' # products =>
    \E r \in Reqs :
      /\ req[r].kind \in Mutating /\ req[r].pc \notin {"idle", "done"}
      /\ req[r].user # None /\ req[r].user = req[r].cred.sub
      /\ req[r].cred.sig = Sign(req[r].cred)
      /\ req'[r].pc # req[r].pc
C1_ReadStep(r) ==
  (req[r].pc = "idle" /\ req'[r].kind \in {"list", "get"}) =>
    /\ req'[r].cred = NoCred /\ products' = products
    /\ IF req'[r].kind = "get" /\ Matching(products, req'[r].id) = {}
       THEN req'[r].resp.status = 404
       ELSE req'[r].resp.status = 200
\* C1: the product collection changes only in a store call of a create, update
\* or delete request whose own token was validated when it arrived; a request
\* whose credential is missing, malformed, tampered or expired ends
\* unauthenticated with the collection unchanged and never reaches a store call;
\* the public list and get-by-id are answered without a token.
C1_MutationsNeedValidToken ==
  [][C1_ChangeStep /\ \A r \in Reqs : C1_ArrivalStep(r) /\ C1_ReadStep(r)]_vars
\* C1 witness: a request with an expired token was refused while another, with
\* a valid one, has changed the collection.
C1_Witness ==
  \E r1, r2 \in Reqs :
    /\ Refused(r1) /\ req[r1].kind = "delete" /\ req[r1].cred \in PriorTokens
    /\ Done(r2, "delete") /\ req[r2].resp.status = 200 /\ products = {}

\* The steps of an update that C7 speaks of: update_one, and the building of
\* update_doc before it.
C7_FieldsOf(b, a, r) ==
  /\ DOMAIN a = DOMAIN b
  /\ \A k \in DOMAIN b :
       IF k = "updated_at" THEN a[k] = req[r].loc.updated_at
       ELSE IF k \in {f \in DOMAIN req[r].data : req[r].data[f] # {}}
            THEN a[k] \in req[r].data[k]
            ELSE a[k] = b[k]
C7_SetStep(r) ==
  (req[r].pc = "u_set" /\ req'[r].pc = "u_reload") =>
    LET before == {d \in products : d.id = req[r].id}
        after == {d \in products' : d.id = req[r].id}
    IN  /\ {d \in products : d.id # req[r].id} = {d \in products' : d.id # req[r].id}
        /\ Cardinality(after) = Cardinality(before)
        /\ \A b \in before : \A a \in after : C7_FieldsOf(b, a, r)
C7_BuildStep(r) ==
  (req[r].pc = "u_find" /\ req'[r].pc = "u_set") =>
    /\ req'[r].loc.updated_at = [iso |-> now]
    /\ products' = products
\* C7: the update_one of an update changes, in the stored product, exactly the
\* supplied fields and updated_at (the clock read when the update was built);
\* its other fields and the other products keep their values.
C7_UpdateFrame == [][\A r \in Reqs : C7_SetStep(r) /\ C7_BuildStep(r)]_vars
\* C7 witness: an update of the price alone has been stored, at a later time
\* than the creation: the name and the variants are the stored ones.
C7_Witness ==
  \E r \in Reqs :
    /\ req[r].pc = "u_reload" /\ req[r].data = [AbsentUpdate EXCEPT !.price = {2499}]
    /\ \E d \in products :
         /\ d.id = req[r].id /\ d.price = 2499 /\ d.name = InitProduct.name
         /\ d.variants = InitProduct.variants /\ d.created_at = InitProduct.created_at
         /\ d.updated_at.iso > InitProduct.updated_at.iso

\* C8: an authenticated update ends with the reloaded product or with NotFound,
\* never with a server fault, in every interleaving of its store calls with
\* concurrent deletes and updates.
C8_UpdateOutcome ==
  \A r \in Reqs :
    (Done(r, "update") /\ req[r].user # None) => req[r].resp.status \in {200, 404}

\* C9: a create returns and stores a product whose created_at equals its
\* updated_at.
C9_CreatedEqualsUpdated ==
  \A r \in Reqs :
    (Done(r, "create") /\ req[r].user # None) =>
      \A p \in req[r].resp.body : p.created_at = p.updated_at

\* The delete_one step of a delete, and the deletes that have ended, by id.
C10_DeleteStep(r) ==
  (req[r].pc = "d_delete" /\ req'[r].pc = "done") =>
    LET stored == {d \in products : d.id = req[r].id} IN
    /\ {d \in products : d.id # req[r].id} = {d \in products' : d.id # req[r].id}
    /\ IF stored # {}
       THEN req'[r].resp.status = 200 /\ products' = products \ stored
       ELSE req'[r].resp = HTTPException(404, "Product not found") /\ products' = products
C10_OneSuccess ==
  \A id \in {req[r].id : r \in Reqs} :
    LET deletes == {r \in Reqs : Done(r, "delete") /\ req[r].user # None /\ req[r].id = id}
        succeeded == {r \in deletes : req[r].resp.status = 200}
    IN  /\ Cardinality(succeeded) <= 1
        /\ \A r \in deletes \ succeeded : req[r].resp = HTTPException(404, "Product not found")
        /\ (deletes # {} /\ id # GhostId) => Cardinality(succeeded) = 1
        /\ id = GhostId => succeeded = {}
\* C10: a delete answers success exactly when its delete_one removed the stored
\* product of that id, and NotFound with the collection unchanged otherwise; of
\* the deletes of one id at most one succeeds, and once all have ended exactly
\* one has; no other product is removed.
C10_DeleteOutcome == [](C10_OneSuccess) /\ [][\A r \in Reqs : C10_DeleteStep(r)]_vars
\* C10 witness: two deletes of the stored product have ended, one with success
\* and one with NotFound.
C10_Witness ==
  \E r1, r2 \in Reqs :
    /\ Done(r1, "delete") /\ Done(r2, "delete") /\ req[r1].id = InitProduct.id
    /\ req[r2].id = InitProduct.id
    /\ req[r1].resp.status = 200 /\ req[r2].resp.status = 404

\* C2 as stated: a token issued for s at t validates to s at every time in
\* [t, t + 24 h) and fails with Expired at every time from t + 24 h on.
C2_FullDayWindow ==
  \A r \in Reqs :
    Done(r, "verify") =>
      \A i \in issued :
        (i.token = req[r].cred /\ i.at <= req[r].data.at) =>
          IF req[r].data.at < i.at + TTLTicks
          THEN req[r].resp = Ok({[username |-> i.token.sub, valid |-> TRUE]})
          ELSE req[r].resp = HTTPException(401, "Token expired")
\* The second in which the clock stood at tick t.
SecondOf(t) == t - (t % TicksPerSecond)
\* C2 (amended): a token issued for s at t validates to s at every time from t
\* up to, not including, 24 h after the start of the second of t, and fails
\* with Expired from then on, whatever else was issued or requested meanwhile.
C2_WholeSecondWindow ==
  \A r \in Reqs :
    Done(r, "verify") =>
      \A i \in issued :
        (i.token = req[r].cred /\ i.at <= req[r].data.at) =>
          IF req[r].data.at < SecondOf(i.at) + TTLTicks
          THEN req[r].resp = Ok({[username |-> i.token.sub, valid |-> TRUE]})
          ELSE req[r].resp = HTTPException(401, "Token expired")
\* C2 witness: a token issued within a second is refused as expired less than
\* 24 h after it was issued.
C2_Witness ==
  \E r \in Reqs : \E i \in issued :
    /\ Done(r, "verify") /\ i.token = req[r].cred /\ i.at <= req[r].data.at
    /\ req[r].data.at < i.at + TTLTicks
    /\ req[r].resp = HTTPException(401, "Token expired")

\* C3 as stated, of the credentials verify_token is given: every refusal is a
\* 401, and the answers to any two refused requests are the same whatever the
\* cause.
C3_OneAnswer ==
  \A r1, r2 \in Reqs :
    (Refused(r1) /\ Refused(r2) /\ req[r1].cred # NoCred /\ req[r2].cred # NoCred) =>
      req[r1].resp.status = 401 /\ req[r1].resp = req[r2].resp
\* The cause verify_token finds in a credential at a time.
Cause(c, clock) ==
  IF c.kind = "none" THEN "missing"
  ELSE IF c.kind # "jwt" THEN "malformed"
  ELSE IF c.sig # Sign(c) THEN "signature"
  ELSE IF c.exp * TicksPerSecond <= clock THEN "expired"
  ELSE IF c.sub = None THEN "subject"
  ELSE ""
\* C3 (amended): every failure of verify_token (invalid signature, malformed
\* token, missing subject, expired token) is a 401, never a server error; the
\* answer is the same for an invalid signature, a malformed token and a missing
\* subject, and an expired token is told apart by its detail; a request without
\* a credential is refused by the bearer scheme before verify_token.
C3_AnswersByCause ==
  \A r \in Reqs :
    Done(r, "verify") =>
      LET cause == Cause(req[r].cred, req[r].data.at) IN
      /\ req[r].resp.status # 500
      /\ cause = "" <=> req[r].resp.status = 200
      /\ cause \in {"malformed", "signature", "subject"} =>
           req[r].resp = HTTPException(401, "Invalid token")
      /\ cause = "expired" => req[r].resp = HTTPException(401, "Token expired")
      /\ cause = "missing" => req[r].resp \in HTTPBearerRejections
\* C3 witness: a tampered token and a token without subject were refused with
\* the same answer.
C3_Witness ==
  \E r1, r2 \in Reqs :
    /\ Done(r1, "verify") /\ Done(r2, "verify")
    /\ Cause(req[r1].cred, req[r1].data.at) = "signature"
    /\ Cause(req[r2].cred, req[r2].data.at) = "subject"
    /\ req[r1].resp = req[r2].resp /\ req[r1].resp.status = 401

\* C4: after any startup runs, sequential or interleaved, the admin collection
\* holds at most one admin of each username, and the admins that were there
\* before are unchanged.
C4_UniqueUsername ==
  /\ \A a, b \in admins : a.username = b.username => a = b
  /\ admins0 \subseteq admins

MissingEnv(p) == Falsy(st[p].username) \/ Falsy(st[p].password)
C6_LoginStep(r) ==
  (req[r].pc = "idle" /\ req'[r].kind = "login") =>
    LET d == req'[r].data
        resp == req'[r].resp
        known == {a \in admins : a.username = d.username}
        matching == {a \in known : verify_password(d.password, a.password_hash)}
    IN  /\ admins' = admins
        /\ IF resp.status = 200
           THEN /\ matching # {}
                /\ \E t \in issued' :
                     /\ issued' = issued \cup {t}
                     /\ t.at = now /\ t.token.sub = d.username
                     /\ t.token.sig = Sign(t.token)
                     /\ resp.body = {AdminLoginResponse(t.token, d.username)}
           ELSE /\ resp = HTTPException(401, "Incorrect username or password")
                /\ issued' = issued
        /\ matching = {} => resp.status # 200
        /\ matching = known /\ known # {} => resp.status = 200
\* C6: a login issues a token only if an admin of that username exists whose
\* stored hash verifies the password, and the token's subject is that admin's
\* username; a wrong password and an unknown username get the same 401 answer;
\* no login changes the admin collection.
C6_LoginOutcome == [][\A r \in Reqs : C6_LoginStep(r)]_vars
\* C6 witness: a wrong password for the admin and an unknown username were both
\* refused, with one answer.
C6_Witness ==
  \E r1, r2 \in Reqs :
    /\ Done(r1, "login") /\ Done(r2, "login") /\ admins # {}
    /\ req[r1].data = [username |-> "admin", password |-> "bad"]
    /\ req[r2].data = [username |-> "ghost", password |-> "secret"]
    /\ req[r1].resp = req[r2].resp /\ req[r1].resp.status = 401

====
